---- MODULE Spec2Model ----
(***************************************************************************)
(* The timer reconciliation engine of the Odoo timesheet timer extension   *)
(* (src/src/services/timerService.ts, class TimerService) as a state       *)
(* machine.  One action is one uninterrupted run of JavaScript: the        *)
(* synchronous prefix of an async method up to its first await, or the     *)
(* continuation that runs when an awaited backend call settles.  The       *)
(* remote backend (Odoo) and the workspace store are the environment.      *)
(*                                                                         *)
(* Representation.  A nullable value is None (<<>>) or Some(v) (<<v>>).    *)
(* Dates are epoch milliseconds.  unit_amount (hours, a float in the code) *)
(* is carried in hundredths of an hour.                                    *)
(***************************************************************************)
EXTENDS Integers, Sequences, FiniteSets

\* ---------------------------------------------------------------- bounds
MaxOps == 2          \* engine operations in flight at once
MaxCalls == 3        \* engine operations called in one behaviour
MaxObservers == 2    \* callbacks registered with onStateUpdate
MaxWriters == 2      \* un-awaited saveState/clearState calls still writing
MaxAdvance == 1      \* times the wall clock moves forward
MaxReport == 1       \* hours: largest running_seconds / unit_amount reported
Epoch == 10000000    \* Date.now() when the engine is constructed (ms)

\* ------------------------------------------------------ program constants
TickMs == 1000           \* setInterval period
MsPerSecond == 1000      \* elapsedSeconds * 1000
SecondsPerHour == 3600   \* unit_amount * 3600
MsPerHour == 3600000     \* elapsedMs / (1000 * 60 * 60)
ToleranceMs == 360000    \* Math.abs(duration - actualElapsed) > 0.1, hours in ms

\* ----------------------------------------------------------- value space
None == <<>>
Some(v) == <<v>>
IsSome(o) == o # None
Val(o) == o[1]

\* JavaScript truthiness of a nullable number: null, undefined and 0 are falsy.
Truthy(o) == IsSome(o) /\ Val(o) # 0

Slots == 1..MaxOps
\* Every record the engine creates takes one startTimer call.
EngineIds == 1..MaxCalls
ExternalIds == {MaxCalls + 1}
RecordIds == EngineIds \cup ExternalIds

\* The (name, projectId, taskId) triples callers pass to startTimer.
StartArgs ==
    { [name |-> "Task A", project_id |-> Some(5), task_id |-> Some(10)],
      [name |-> "Task B", project_id |-> Some(6), task_id |-> None] }

\* What the backend holds for a record somebody else created.
ExternalArgs == [name |-> "Ext", project_id |-> Some(7), task_id |-> None]

\* Values get_running_timer can report: running_seconds (seconds) and the
\* record's unit_amount (hundredths of an hour).
RunningSeconds == { SecondsPerHour * i : i \in 0..MaxReport }
UnitAmounts == { 100 * i : i \in 0..MaxReport }

Keys == << "timer_entryId", "timer_startTime", "timer_projectId",
           "timer_taskId", "timer_description" >>

VARIABLES
    state,            \* this.state : TimerState
    intervalId,       \* this.intervalId is non-null
    liveIntervals,    \* setInterval timers scheduled in the event loop
    updateCallbacks,  \* this.updateCallbacks, in registration order
    store,            \* context.workspaceState: key -> None | Some(value)
    writers,          \* saveState/clearState calls suspended at an await
    ops,              \* slot -> the async engine call suspended there
    records,          \* backend: record id -> None | Some(fields)
    nextId,           \* backend: the id the next create returns
    remoteRunning,    \* backend: records whose timer is running
    now,              \* Date.now()
    disposed,         \* history: dispose() has been called
    calls,            \* history: engine operations called so far
    act,              \* the last step: "<method>.<phase>", or "env"
    before,           \* the last step: the engine's variables when it began
    rpc,              \* the last step: the backend calls it issued
    reply,            \* the last step: the backend answer it consumed
    fanout,           \* the last step: the callback invocations it made
    ret,              \* the last step: None | Some(value the method returned)
    message,          \* the last step: None | Some(information message shown)
    settles,          \* the schedule: store updates settle before anything else
    startup           \* restoreAuth of the extension: "off" when not modelled,
                      \* or "delay", "load", "due", "reconciled", "done"

vars == << state, intervalId, liveIntervals, updateCallbacks, store, writers,
           ops, records, nextId, remoteRunning, now, disposed,
           calls, act, before, rpc, reply, fanout, ret, message, settles,
           startup >>

engineVars == << state, intervalId, liveIntervals, store, writers >>
backendVars == << records, nextId, remoteRunning >>

\* ------------------------------------------------------------ TimerState
Stopped ==
    [isRunning |-> FALSE, startTime |-> None, entryId |-> None, entry |-> None]

Running(start, id, entry) ==
    [isRunning |-> TRUE, startTime |-> Some(start), entryId |-> Some(id),
     entry |-> Some(entry)]

\* The TimesheetEntry fields the engine reads back (name, project_id, task_id)
\* and its id.
Entry(id, args) ==
    [id |-> id, name |-> args.name, project_id |-> args.project_id,
     task_id |-> args.task_id]

\* ------------------------------------------------------------- observers
\* A fan-out that walks the callbacks from the last registered to the first.
NotifyStateUpdate_Reversed(st, cbs) ==
    [i \in 1..Len(cbs) |-> [cb |-> cbs[Len(cbs) + 1 - i], st |-> st]]

\* notifyStateUpdate: every registered callback, in order, with this.state.
NotifyStateUpdate(st, cbs) ==
    [i \in 1..Len(cbs) |-> [cb |-> cbs[i], st |-> st]]

\* -------------------------------------------------- the engine's variables
\* The engine-owned variables as one record, so that a method's effect is an
\* operator from record to record.
Engine ==
    [state |-> state, store |-> store, writers |-> writers,
     intervalId |-> intervalId, liveIntervals |-> liveIntervals]

\* ------------------------------------------------------------- the tick
\* stopUpdateInterval: clearInterval(this.intervalId) when it is set.
StopUpdateInterval(e) ==
    IF e.intervalId
    THEN [e EXCEPT !.intervalId = FALSE, !.liveIntervals = e.liveIntervals - 1]
    ELSE e

\* A startUpdateInterval that schedules a new interval without cancelling the
\* one already scheduled: what C30 rules out.
StartUpdateInterval_Stacks(e) ==
    IF e.state.isRunning
    THEN [e EXCEPT !.intervalId = TRUE, !.liveIntervals = e.liveIntervals + 1]
    ELSE StopUpdateInterval(e)

\* startUpdateInterval: stop the existing interval, then schedule a new one
\* only if the timer is running.
StartUpdateInterval(e) ==
    LET s == StopUpdateInterval(e)
    IN  IF s.state.isRunning
        THEN [s EXCEPT !.intervalId = TRUE, !.liveIntervals = s.liveIntervals + 1]
        ELSE s

\* ------------------------------------------------------------ persistence
EmptyStore == [k \in {Keys[i] : i \in 1..Len(Keys)} |-> None]

\* The value saveState hands to workspaceState.update for each key, read
\* from this.state at the moment the write is issued.
SaveValue(k, st) ==
    CASE k = "timer_entryId" -> st.entryId
      [] k = "timer_startTime" -> st.startTime
      [] k = "timer_projectId" ->
            IF IsSome(st.entry) THEN Val(st.entry).project_id ELSE None
      [] k = "timer_taskId" ->
            IF IsSome(st.entry) THEN Val(st.entry).task_id ELSE None
      [] k = "timer_description" ->
            IF IsSome(st.entry) THEN Some(Val(st.entry).name) ELSE None

\* One workspaceState.update issued by a saveState or clearState call.
WriteKey(kind, i, st, sto) ==
    [sto EXCEPT ![Keys[i]] = IF kind = "save" THEN SaveValue(Keys[i], st) ELSE None]

\* A saveState / clearState call suspended at the await of its first update.
Pending(kind) == [kind |-> kind, next |-> 2]

\* saveState() called without await: the first update is issued at once, the
\* other four follow one await at a time.
SaveState(e) ==
    [e EXCEPT !.store = WriteKey("save", 1, e.state, e.store),
              !.writers = Append(e.writers, Pending("save"))]

\* clearState() called without await.
ClearState(e) ==
    [e EXCEPT !.store = WriteKey("clear", 1, e.state, e.store),
              !.writers = Append(e.writers, Pending("clear"))]

\* ------------------------------------------------- the methods' effects
\* A startTimer that never rejects: what C2 rules out.
StartRejects_Never(st) == FALSE

\* startTimer, line 41: the guard.
StartRejects(st) == st.isRunning

\* A successful startTimer that does not save the state: what C5 rules out.
StartSucceeds_Unsaved(e, t, id, args) ==
    StartUpdateInterval([e EXCEPT !.state = Running(t, id, Entry(id, args))])

\* startTimer, lines 70-80: the Running state is installed, saved and the
\* interval started.
StartSucceeds(e, t, id, args) ==
    StartUpdateInterval(SaveState([e EXCEPT !.state = Running(t, id, Entry(id, args))]))

\* A failed startTimer that still starts the interval and a save: what C4
\* rules out.
StartFails_HalfApplied(e) ==
    SaveState([e EXCEPT !.intervalId = TRUE, !.liveIntervals = e.liveIntervals + 1])

\* startTimer, lines 84-87: the catch block.
StartFails(e) == e

\* A stopTimer that never rejects: what C7 rules out.
StopRejects_Never(st) == FALSE

\* stopTimer, line 91: the guard.
StopRejects(st) == ~st.isRunning \/ ~Truthy(st.entryId)

\* stopTimer, line 104: the id re-read is this.state.entryId, evaluated after
\* the await of action_timer_stop.
ReadTarget(st) == st.entryId

\* A successful stopTimer that only lowers isRunning: what C1 rules out.
StopSucceeds_KeepsEntry(e) ==
    StopUpdateInterval(ClearState([e EXCEPT !.state.isRunning = FALSE]))

\* A successful stopTimer that leaves the interval scheduled: what C18 rules
\* out.
StopSucceeds_LeavesInterval(e) ==
    ClearState([e EXCEPT !.state = Stopped])

\* stopTimer, lines 116-126: the Stopped state is installed, the saved state
\* cleared and the interval stopped.
StopSucceeds(e) ==
    StopUpdateInterval(ClearState([e EXCEPT !.state = Stopped]))

\* A failed stopTimer that still goes to Stopped: what C8 rules out.
StopFails_Applied(e) ==
    StopUpdateInterval(ClearState([e EXCEPT !.state = Stopped]))

\* stopTimer, lines 130-133: the catch block.
StopFails(e) == e

\* A back-computation that ignores the accumulated unit_amount: what C9 rules
\* out.
BackComputedStart_ElapsedOnly(t, runningSeconds, unitAmount) ==
    t - runningSeconds * MsPerSecond

\* refreshState, lines 146-149: the start time back-computed from the reported
\* running_seconds and unit_amount (hundredths of an hour).
BackComputedStart(t, runningSeconds, unitAmount) ==
    LET currentSeconds == (unitAmount * SecondsPerHour) \div 100
        elapsedSeconds == runningSeconds - currentSeconds
    IN  t - elapsedSeconds * MsPerSecond

\* A reconcile that, when already running, moves the local start time back by
\* the reported elapsed time instead of recomputing it from now: what C12
\* rules out.
RefreshRunning_FromLocalStart(e, t, tm) ==
    LET fresh == BackComputedStart(t, tm.running_seconds, tm.unit_amount)
        start == IF e.state.isRunning
                 THEN Val(e.state.startTime) - (t - fresh)
                 ELSE fresh
    IN  StartUpdateInterval(SaveState(
            [e EXCEPT !.state = Running(start, tm.id, tm.entry)]))

\* refreshState, lines 144-160: the backend reported timer `tm`.
RefreshRunning(e, t, tm) ==
    StartUpdateInterval(SaveState(
        [e EXCEPT !.state = Running(BackComputedStart(t, tm.running_seconds, tm.unit_amount),
                                    tm.id, tm.entry)]))

\* A reconcile-driven stop that leaves the saved state in place: what C10
\* rules out.
RefreshNone_KeepsSnapshot(e) ==
    IF e.state.isRunning
    THEN StopUpdateInterval([e EXCEPT !.state = Stopped])
    ELSE e

\* refreshState, lines 163-177: the backend reported no running timer.
RefreshNone(e) ==
    IF e.state.isRunning
    THEN StopUpdateInterval(ClearState([e EXCEPT !.state = Stopped]))
    ELSE e

\* A failed reconcile that gives the timer up: what C11 rules out.
RefreshFails_GivesUp(e) ==
    StopUpdateInterval(ClearState([e EXCEPT !.state = Stopped]))

\* refreshState, lines 178-182: the catch block.
RefreshFails(e) == StopUpdateInterval(e)

\* A loadState that asks for the entry id only: what C15 rules out.
HasSnapshot_EntryOnly(sto) == Truthy(sto["timer_entryId"])

\* loadState, line 260: the saved entry id and start time are both truthy.
HasSnapshot(sto) == Truthy(sto["timer_entryId"]) /\ Truthy(sto["timer_startTime"])

\* A restore that loses the task and shifts the start time: what C14 rules
\* out.
LoadRestores_Lossy(e, snap) ==
    LET id == Val(snap["timer_entryId"])
        desc == snap["timer_description"]
    IN  StartUpdateInterval(
            [e EXCEPT !.state =
                Running(Val(snap["timer_startTime"]) + TickMs, id,
                        [id |-> id,
                         name |-> IF IsSome(desc) THEN Val(desc) ELSE "",
                         project_id |-> snap["timer_projectId"],
                         task_id |-> None])])

\* loadState, lines 266-280: the Running state restored from the saved keys.
LoadRestores(e, snap) ==
    LET id == Val(snap["timer_entryId"])
        desc == snap["timer_description"]
    IN  StartUpdateInterval(
            [e EXCEPT !.state =
                Running(Val(snap["timer_startTime"]), id,
                        [id |-> id,
                         name |-> IF IsSome(desc) THEN Val(desc) ELSE "",
                         project_id |-> snap["timer_projectId"],
                         task_id |-> snap["timer_taskId"]])])

\* loadState, lines 284-287: the catch block.
LoadFails(e) == ClearState(e)

\* getElapsedHours, in milliseconds.
GetElapsedMs(st, t) ==
    IF ~st.isRunning \/ ~IsSome(st.startTime) THEN 0 ELSE t - Val(st.startTime)

\* stopTimer, line 110: the discrepancy note is added to the message.
\* duration is in hundredths of an hour, the elapsed time in milliseconds;
\* both sides of the comparison are scaled to milliseconds.
DiscrepancyNote(duration, elapsedMs) ==
    LET durationMs == (duration * MsPerHour) \div 100
        diff == IF durationMs >= elapsedMs
                THEN durationMs - elapsedMs
                ELSE elapsedMs - durationMs
    IN  duration > 0 /\ elapsedMs > 0 /\ diff > ToleranceMs

\* The setInterval callback, lines 220-225: republish while running, else
\* cancel.
TickPublishes(st) == st.isRunning /\ IsSome(st.startTime)

\* A callback that republishes whatever the state is: what C21 rules out.
TickEffect_Blind(e) == e

\* The setInterval callback, lines 219-226, on the engine's variables: it
\* leaves them alone while running and cancels the interval otherwise.
TickEffect(e) == IF TickPublishes(e.state) THEN e ELSE StopUpdateInterval(e)

\* The callbacks the setInterval callback invokes.
TickFanout(e, cbs) ==
    IF TickPublishes(e.state) THEN NotifyStateUpdate(e.state, cbs) ELSE << >>

\* dispose, line 310.
DisposeEffect(e) == StopUpdateInterval(e)

\* ------------------------------------------------------------ the backend
\* The backend starting the timer of record id: whether it leaves another
\* running timer alone or stops it is the backend's business.
BackendStart(id) == remoteRunning' \in { remoteRunning \cup {id}, {id} }

\* What getRunningTimer resolves with for running record r.
Reported(r, rs, ua) ==
    [id |-> r, running_seconds |-> rs, unit_amount |-> ua,
     entry |-> Entry(r, Val(records[r]))]

\* ------------------------------------------------------------- operations
\* No saveState / clearState call is still writing.  The store answers an
\* update long before a backend reply or a timer is due: under that schedule
\* such a call runs to its end before the next step of anything else.  Under
\* the other schedule an update may take any time to resolve, and nothing
\* waits for it (lines 78 and 124: the promises are dropped).
Settled == settles => writers = << >>

IdleOp == [kind |-> "idle", pc |-> "idle", args |-> None, entryId |-> None,
           snap |-> None]

FreeSlots == { s \in Slots : ops[s].kind = "idle" }
FreeSlot == CHOOSE s \in FreeSlots : \A t \in FreeSlots : s <= t

\* A caller may invoke an engine operation.
CanCall == Settled /\ ~disposed /\ calls < MaxCalls /\ FreeSlots # {}

\* The operation in slot s is suspended at the await named pc.
At(s, kind, pc) == Settled /\ ops[s].kind = kind /\ ops[s].pc = pc

\* A new operation suspends at its first await.
Suspend(op) == ops' = [ops EXCEPT ![FreeSlot] = op]

\* The operation suspended in slot s has returned.
Finish(s) == ops' = [ops EXCEPT ![s] = IdleOp]

\* The engine-owned variables after a step.
Commit(e) ==
    /\ Len(e.writers) <= MaxWriters
    /\ state' = e.state
    /\ store' = e.store
    /\ writers' = e.writers
    /\ intervalId' = e.intervalId
    /\ liveIntervals' = e.liveIntervals

\* Where restoreAuth stands after an engine step (extension.ts lines 146-150):
\* it awaits loadState, and on false goes on to call refreshState.
AfterStep(phase, a, returned) ==
    CASE phase = "delay" /\ a = "loadState.call" ->
            IF returned = None THEN "load" ELSE "due"
      [] phase = "load" /\ a = "loadState.query" ->
            IF returned = Some(TRUE) THEN "done" ELSE "due"
      [] phase = "due" /\ a = "refreshState.call" -> "reconciled"
      [] OTHER -> phase

\* What a step of the engine's code did.
OutWith(a, issued, answer, notified, returned, shown) ==
    /\ act' = a
    /\ before' = Engine
    /\ rpc' = issued
    /\ reply' = answer
    /\ fanout' = notified
    /\ ret' = returned
    /\ message' = shown
    /\ settles' = settles
    /\ startup' = AfterStep(startup, a, returned)

\* A step that shows no information message.
Out(a, issued, answer, notified, returned) ==
    OutWith(a, issued, answer, notified, returned, None)

\* A step in which no engine code ran.
Silent ==
    /\ act' = "env"
    /\ before' = [state |-> state', store |-> store', writers |-> writers',
                  intervalId |-> intervalId', liveIntervals |-> liveIntervals']
    /\ rpc' = << >>
    /\ reply' = None
    /\ fanout' = << >>
    /\ ret' = None
    /\ message' = None
    /\ settles' = settles

\* A step of the surroundings.
Quiet == Silent /\ startup' = startup

Failure == Some([ok |-> FALSE])

Constructed ==
    /\ state = Stopped
    /\ intervalId = FALSE
    /\ liveIntervals = 0
    /\ updateCallbacks = << 1 >>
    /\ store = EmptyStore
    /\ writers = << >>
    /\ ops = [s \in Slots |-> IdleOp]
    /\ records = [r \in RecordIds |-> IF r \in ExternalIds THEN Some(ExternalArgs) ELSE None]
    /\ nextId = 1
    /\ remoteRunning = {}
    /\ now = Epoch
    /\ disposed = FALSE
    /\ calls = 0
    /\ act = "env"
    /\ before = Engine
    /\ rpc = << >>
    /\ reply = None
    /\ fanout = << >>
    /\ ret = None
    /\ message = None

Init ==
    /\ Constructed
    /\ settles = TRUE
    /\ startup = "off"

\* onStateUpdate(callback), lines 32-34.
OnStateUpdate ==
    /\ Settled
    /\ ~disposed
    /\ Len(updateCallbacks) < MaxObservers
    /\ updateCallbacks' = Append(updateCallbacks, Len(updateCallbacks) + 1)
    /\ UNCHANGED << engineVars, backendVars, ops, now, disposed, calls >>
    /\ Quiet

\* startTimer, lines 40-65: the guard, the session check and the create call.
StartTimerCall ==
    /\ CanCall
    /\ calls' = calls + 1
    /\ \E args \in StartArgs, hasSession \in BOOLEAN :
         IF StartRejects(state)
         THEN /\ UNCHANGED ops
              /\ Commit(Engine)
              /\ Out("startTimer.call", << >>, None, << >>, Some(FALSE))
         ELSE IF ~hasSession
         THEN /\ UNCHANGED ops
              /\ Commit(StartFails(Engine))
              /\ Out("startTimer.call", << >>, None, << >>, Some(FALSE))
         ELSE /\ Suspend([IdleOp EXCEPT !.kind = "startTimer", !.pc = "create",
                                        !.args = Some(args)])
              /\ Commit(Engine)
              /\ Out("startTimer.call",
                     << [m |-> "create", name |-> args.name, unit_amount |-> 0,
                         project_id |-> args.project_id, task_id |-> args.task_id] >>,
                     None, << >>, None)
    /\ UNCHANGED << backendVars, updateCallbacks, now, disposed >>

\* startTimer, lines 65 and 84-87: createTimesheetEntry rejected.
StartTimerCreateFailed(s) ==
    /\ At(s, "startTimer", "create")
    /\ Finish(s)
    /\ Commit(StartFails(Engine))
    /\ Out("startTimer.create", << >>, Failure, << >>, Some(FALSE))
    /\ UNCHANGED << backendVars, updateCallbacks, now, disposed, calls >>

\* startTimer, lines 65-68: createTimesheetEntry resolved with the new id;
\* action_timer_start is issued on it.
StartTimerCreated(s) ==
    /\ At(s, "startTimer", "create")
    /\ records' = [records EXCEPT ![nextId] = ops[s].args]
    /\ nextId' = nextId + 1
    /\ ops' = [ops EXCEPT ![s].pc = "start", ![s].entryId = Some(nextId)]
    /\ Commit(Engine)
    /\ Out("startTimer.create", << [m |-> "startTimer", id |-> Some(nextId)] >>,
           Some([ok |-> TRUE, id |-> nextId]), << >>, None)
    /\ UNCHANGED << remoteRunning, updateCallbacks, now, disposed, calls >>

\* startTimer, lines 68 and 84-87: action_timer_start rejected.
StartTimerStartFailed(s) ==
    /\ At(s, "startTimer", "start")
    /\ Finish(s)
    /\ Commit(StartFails(Engine))
    /\ Out("startTimer.start", << >>, Failure, << >>, Some(FALSE))
    /\ UNCHANGED << backendVars, updateCallbacks, now, disposed, calls >>

\* startTimer, lines 68-83: action_timer_start resolved; the Running state is
\* installed, saved, the interval started and the callbacks notified.
StartTimerStarted(s) ==
    /\ At(s, "startTimer", "start")
    /\ LET id == Val(ops[s].entryId)
           e == StartSucceeds(Engine, now, id, Val(ops[s].args))
       IN  /\ BackendStart(id)
           /\ Commit(e)
           /\ Out("startTimer.start", << >>, Some([ok |-> TRUE, id |-> id]),
                  NotifyStateUpdate(e.state, updateCallbacks), Some(TRUE))
    /\ Finish(s)
    /\ UNCHANGED << records, nextId, updateCallbacks, now, disposed, calls >>

\* stopTimer, lines 90-99: the guard and the action_timer_stop call.
StopTimerCall ==
    /\ CanCall
    /\ calls' = calls + 1
    /\ IF StopRejects(state)
       THEN /\ UNCHANGED ops
            /\ Out("stopTimer.call", << >>, None, << >>, Some(FALSE))
       ELSE /\ Suspend([IdleOp EXCEPT !.kind = "stopTimer", !.pc = "stop",
                                      !.entryId = state.entryId])
            /\ Out("stopTimer.call", << [m |-> "stopTimer", id |-> state.entryId] >>,
                   None, << >>, None)
    /\ Commit(Engine)
    /\ UNCHANGED << backendVars, updateCallbacks, now, disposed >>

\* stopTimer, lines 99 and 130-133: action_timer_stop rejected.
StopTimerStopFailed(s) ==
    /\ At(s, "stopTimer", "stop")
    /\ Finish(s)
    /\ Commit(StopFails(Engine))
    /\ Out("stopTimer.stop", << >>, Failure, << >>, Some(FALSE))
    /\ UNCHANGED << backendVars, updateCallbacks, now, disposed, calls >>

\* stopTimer, lines 99-104: action_timer_stop resolved; the record is re-read.
StopTimerStopped(s) ==
    /\ At(s, "stopTimer", "stop")
    /\ remoteRunning' = remoteRunning \ {Val(ops[s].entryId)}
    /\ ops' = [ops EXCEPT ![s].pc = "read"]
    /\ Commit(Engine)
    /\ Out("stopTimer.stop",
           << [m |-> "read", id |-> ReadTarget(state)] >>,
           Some([ok |-> TRUE, id |-> Val(ops[s].entryId)]), << >>, None)
    /\ UNCHANGED << records, nextId, updateCallbacks, now, disposed, calls >>

\* stopTimer, lines 104 and 130-133: getTimesheetEntry rejected.
StopTimerReadFailed(s) ==
    /\ At(s, "stopTimer", "read")
    /\ Finish(s)
    /\ Commit(StopFails(Engine))
    /\ Out("stopTimer.read", << >>, Failure, << >>, Some(FALSE))
    /\ UNCHANGED << backendVars, updateCallbacks, now, disposed, calls >>

\* stopTimer, lines 104-129: getTimesheetEntry resolved; the message is shown
\* with or without the discrepancy note, the Stopped state is installed, the saved state cleared, the interval stopped, the callbacks
\* notified.
StopTimerRead(s) ==
    /\ At(s, "stopTimer", "read")
    /\ LET e == StopSucceeds(Engine)
       IN  /\ Commit(e)
           /\ \E duration \in UnitAmounts :
                OutWith("stopTimer.read", << >>,
                        Some([ok |-> TRUE, unit_amount |-> duration]),
                        NotifyStateUpdate(e.state, updateCallbacks), Some(TRUE),
                        Some([duration |-> duration,
                              note |-> DiscrepancyNote(duration,
                                                       GetElapsedMs(state, now))]))
    /\ Finish(s)
    /\ UNCHANGED << backendVars, updateCallbacks, now, disposed, calls >>

\* refreshState, lines 136-142: the interval is stopped, then the backend is
\* asked for the running timer.
RefreshStateCall ==
    /\ CanCall
    /\ calls' = calls + 1
    /\ Suspend([IdleOp EXCEPT !.kind = "refreshState", !.pc = "query"])
    /\ Commit(StopUpdateInterval(Engine))
    /\ Out("refreshState.call", << [m |-> "getRunningTimer"] >>, None, << >>, None)
    /\ UNCHANGED << backendVars, updateCallbacks, now, disposed >>

\* refreshState, lines 178-182: getRunningTimer rejected.  refreshState
\* resolves with no value in every case: ret is Some(TRUE) when it resolves.
RefreshStateFailed(s) ==
    /\ At(s, "refreshState", "query")
    /\ Finish(s)
    /\ Commit(RefreshFails(Engine))
    /\ Out("refreshState.query", << >>, Failure, << >>, Some(TRUE))
    /\ UNCHANGED << backendVars, updateCallbacks, now, disposed, calls >>

\* refreshState, lines 144-162: the backend reports a running timer.
RefreshStateRunning(s) ==
    /\ At(s, "refreshState", "query")
    /\ \E r \in remoteRunning, rs \in RunningSeconds, ua \in UnitAmounts :
         LET tm == Reported(r, rs, ua)
             e == RefreshRunning(Engine, now, tm)
         IN  /\ Commit(e)
             /\ Out("refreshState.query", << >>, Some([ok |-> TRUE, timer |-> Some(tm)]),
                    NotifyStateUpdate(e.state, updateCallbacks), Some(TRUE))
    /\ Finish(s)
    /\ UNCHANGED << backendVars, updateCallbacks, now, disposed, calls >>

\* refreshState, lines 163-177: the backend reports no running timer.
RefreshStateNone(s) ==
    /\ At(s, "refreshState", "query")
    /\ remoteRunning = {}
    /\ LET e == RefreshNone(Engine)
       IN  /\ Commit(e)
           /\ Out("refreshState.query", << >>, Some([ok |-> TRUE, timer |-> None]),
                  IF state.isRunning
                  THEN NotifyStateUpdate(e.state, updateCallbacks)
                  ELSE << >>,
                  Some(TRUE))
    /\ Finish(s)
    /\ UNCHANGED << backendVars, updateCallbacks, now, disposed, calls >>

\* loadState, lines 249-263 and 290: the saved keys are read; with an entry id
\* and a start time the backend is asked for the running timer.
LoadStateCall ==
    /\ CanCall
    /\ calls' = calls + 1
    /\ IF HasSnapshot(store)
       THEN /\ Suspend([IdleOp EXCEPT !.kind = "loadState", !.pc = "query",
                                      !.snap = Some(store)])
            /\ Out("loadState.call", << [m |-> "getRunningTimer"] >>, None, << >>, None)
       ELSE /\ UNCHANGED ops
            /\ Out("loadState.call", << >>, None, << >>, Some(FALSE))
    /\ Commit(Engine)
    /\ UNCHANGED << backendVars, updateCallbacks, now, disposed >>

\* loadState, lines 284-290: getRunningTimer rejected; the saved state is
\* cleared.
LoadStateFailed(s) ==
    /\ At(s, "loadState", "query")
    /\ Finish(s)
    /\ Commit(LoadFails(Engine))
    /\ Out("loadState.query", << >>, Failure, << >>, Some(FALSE))
    /\ UNCHANGED << backendVars, updateCallbacks, now, disposed, calls >>

\* loadState, lines 264 and 290: the backend reports no running timer, or one
\* for another record.
LoadStateMismatch(s) ==
    /\ At(s, "loadState", "query")
    /\ \/ /\ remoteRunning = {}
          /\ Out("loadState.query", << >>, Some([ok |-> TRUE, timer |-> None]),
                 << >>, Some(FALSE))
       \/ \E r \in remoteRunning :
            /\ r # Val(Val(ops[s].snap)["timer_entryId"])
            /\ Out("loadState.query", << >>,
                   Some([ok |-> TRUE, timer |-> Some(Reported(r, 0, 0))]),
                   << >>, Some(FALSE))
    /\ Finish(s)
    /\ Commit(Engine)
    /\ UNCHANGED << backendVars, updateCallbacks, now, disposed, calls >>

\* loadState, lines 264-283: the backend reports the saved record running; the
\* Running state is restored from the saved keys.
LoadStateRestored(s) ==
    /\ At(s, "loadState", "query")
    /\ LET snap == Val(ops[s].snap)
           id == Val(snap["timer_entryId"])
           e == LoadRestores(Engine, snap)
       IN  /\ id \in remoteRunning
           /\ Commit(e)
           /\ Out("loadState.query", << >>,
                  Some([ok |-> TRUE, timer |-> Some(Reported(id, 0, 0))]),
                  NotifyStateUpdate(e.state, updateCallbacks), Some(TRUE))
    /\ Finish(s)
    /\ UNCHANGED << backendVars, updateCallbacks, now, disposed, calls >>

\* The setInterval callback of startUpdateInterval, lines 219-226.
Tick ==
    /\ Settled
    /\ liveIntervals > 0
    /\ Commit(TickEffect(Engine))
    /\ Out("tick", << >>, None, TickFanout(Engine, updateCallbacks), None)
    /\ UNCHANGED << ops, backendVars, updateCallbacks, now, disposed, calls >>

\* dispose, lines 309-312.
Dispose ==
    /\ Settled
    /\ ~disposed
    /\ Commit(DisposeEffect(Engine))
    /\ updateCallbacks' = << >>
    /\ disposed' = TRUE
    /\ Out("dispose", << >>, None, << >>, None)
    /\ UNCHANGED << ops, backendVars, now, calls >>

RemoveAt(seq, i) == SubSeq(seq, 1, i - 1) \o SubSeq(seq, i + 1, Len(seq))

\* saveState / clearState resumed after an awaited update resolved: the next
\* key is written (saveState reads this.state at that moment).
StoreWrite(i) ==
    /\ i \in 1..Len(writers)
    /\ LET w == writers[i]
       IN  /\ store' = WriteKey(w.kind, w.next, state, store)
           /\ writers' = IF w.next = Len(Keys)
                         THEN RemoveAt(writers, i)
                         ELSE [writers EXCEPT ![i].next = w.next + 1]
    /\ UNCHANGED << state, intervalId, liveIntervals, ops, backendVars,
                    updateCallbacks, now, disposed, calls >>
    /\ Quiet

\* A store failure that takes the engine down with it.
StoreWriteFailed_Fatal(i) ==
    /\ i \in 1..Len(writers)
    /\ writers' = RemoveAt(writers, i)
    /\ state' = Stopped
    /\ intervalId' = FALSE
    /\ liveIntervals' = 0
    /\ UNCHANGED << store, ops, backendVars, updateCallbacks, now, disposed, calls >>
    /\ Quiet

\* An awaited update rejected: the rest of that saveState / clearState call
\* never runs, and nobody awaits its promise.
StoreWriteFailed(i) ==
    /\ i \in 1..Len(writers)
    /\ writers' = RemoveAt(writers, i)
    /\ UNCHANGED << state, intervalId, liveIntervals, store, ops, backendVars,
                    updateCallbacks, now, disposed, calls >>
    /\ Quiet

\* The wall clock.
AdvanceTime ==
    /\ Settled
    /\ now < Epoch + MaxAdvance * TickMs
    /\ now' = now + TickMs
    /\ UNCHANGED << engineVars, ops, backendVars, updateCallbacks, disposed, calls >>
    /\ Quiet

\* Somebody else (the Odoo web client) starts a timer on another record.
ExternalStart(r) ==
    /\ Settled
    /\ r \in ExternalIds \ remoteRunning
    /\ BackendStart(r)
    /\ UNCHANGED << engineVars, ops, records, nextId, updateCallbacks,
                    now, disposed, calls >>
    /\ Quiet

\* Somebody else stops a running timer.
ExternalStop(r) ==
    /\ Settled
    /\ r \in remoteRunning
    /\ remoteRunning' = remoteRunning \ {r}
    /\ UNCHANGED << engineVars, ops, records, nextId, updateCallbacks,
                    now, disposed, calls >>
    /\ Quiet

\* One step of the engine or of its surroundings other than the store.
Step ==
    \/ OnStateUpdate
    \/ StartTimerCall
    \/ \E s \in Slots : StartTimerCreateFailed(s)
    \/ \E s \in Slots : StartTimerCreated(s)
    \/ \E s \in Slots : StartTimerStartFailed(s)
    \/ \E s \in Slots : StartTimerStarted(s)
    \/ StopTimerCall
    \/ \E s \in Slots : StopTimerStopFailed(s)
    \/ \E s \in Slots : StopTimerStopped(s)
    \/ \E s \in Slots : StopTimerReadFailed(s)
    \/ \E s \in Slots : StopTimerRead(s)
    \/ RefreshStateCall
    \/ \E s \in Slots : RefreshStateFailed(s)
    \/ \E s \in Slots : RefreshStateRunning(s)
    \/ \E s \in Slots : RefreshStateNone(s)
    \/ LoadStateCall
    \/ \E s \in Slots : LoadStateFailed(s)
    \/ \E s \in Slots : LoadStateMismatch(s)
    \/ \E s \in Slots : LoadStateRestored(s)
    \/ Tick
    \/ Dispose
    \/ AdvanceTime
    \/ \E r \in RecordIds : ExternalStart(r)
    \/ \E r \in RecordIds : ExternalStop(r)

\* One step of a saveState / clearState call still writing.
StoreStep ==
    \/ \E i \in 1..MaxWriters : StoreWrite(i)
    \/ \E i \in 1..MaxWriters : StoreWriteFailed(i)

Next ==
    \/ StoreStep
    \/ Step

Spec == Init /\ [][Next]_vars

\* ------------------------------------------- one operation at a time
\* No engine operation is suspended at an await.
Quiescent == \A s \in Slots : ops[s] = IdleOp

\* The extension host restarts: activate constructs a new TimerService over
\* the same workspace store, and the status bar registers its callback.  What
\* the old engine had in flight (operations, store writes, the interval) is
\* gone with its process.
Restart ==
    /\ calls < MaxCalls
    /\ calls' = calls + 1
    /\ state' = Stopped
    /\ intervalId' = FALSE
    /\ liveIntervals' = 0
    /\ writers' = << >>
    /\ ops' = [s \in Slots |-> IdleOp]
    /\ updateCallbacks' = << 1 >>
    /\ disposed' = FALSE
    /\ UNCHANGED << store, backendVars, now >>
    /\ Quiet

\* The callers wait for one operation to return before calling the next.
SeqStartTimerCall == Quiescent /\ StartTimerCall
SeqStopTimerCall == Quiescent /\ StopTimerCall
SeqRefreshStateCall == Quiescent /\ RefreshStateCall
SeqLoadStateCall == Quiescent /\ LoadStateCall

NextSeq ==
    \/ StoreStep
    \/ Restart
    \/ OnStateUpdate
    \/ SeqStartTimerCall
    \/ \E s \in Slots : StartTimerCreateFailed(s)
    \/ \E s \in Slots : StartTimerCreated(s)
    \/ \E s \in Slots : StartTimerStartFailed(s)
    \/ \E s \in Slots : StartTimerStarted(s)
    \/ SeqStopTimerCall
    \/ \E s \in Slots : StopTimerStopFailed(s)
    \/ \E s \in Slots : StopTimerStopped(s)
    \/ \E s \in Slots : StopTimerReadFailed(s)
    \/ \E s \in Slots : StopTimerRead(s)
    \/ SeqRefreshStateCall
    \/ \E s \in Slots : RefreshStateFailed(s)
    \/ \E s \in Slots : RefreshStateRunning(s)
    \/ \E s \in Slots : RefreshStateNone(s)
    \/ SeqLoadStateCall
    \/ \E s \in Slots : LoadStateFailed(s)
    \/ \E s \in Slots : LoadStateMismatch(s)
    \/ \E s \in Slots : LoadStateRestored(s)
    \/ Tick
    \/ Dispose
    \/ AdvanceTime
    \/ \E r \in RecordIds : ExternalStart(r)
    \/ \E r \in RecordIds : ExternalStop(r)

\* Sequential use of the engine across restarts of the extension host.
SpecSeq == Init /\ [][NextSeq]_vars

\* ------------------------------------------- store updates of any latency
\* The same engine when an update of the workspace store may resolve at any
\* time: the write sequences of successive saveState / clearState calls
\* interleave.  Every update succeeds.
InitStore ==
    /\ Constructed
    /\ settles = FALSE
    /\ startup = "off"

NextStore ==
    \/ \E i \in 1..MaxWriters : StoreWrite(i)
    \/ SeqStartTimerCall
    \/ \E s \in Slots : StartTimerCreateFailed(s)
    \/ \E s \in Slots : StartTimerCreated(s)
    \/ \E s \in Slots : StartTimerStartFailed(s)
    \/ \E s \in Slots : StartTimerStarted(s)
    \/ SeqStopTimerCall
    \/ \E s \in Slots : StopTimerStopFailed(s)
    \/ \E s \in Slots : StopTimerStopped(s)
    \/ \E s \in Slots : StopTimerReadFailed(s)
    \/ \E s \in Slots : StopTimerRead(s)
    \/ SeqRefreshStateCall
    \/ \E s \in Slots : RefreshStateFailed(s)
    \/ \E s \in Slots : RefreshStateRunning(s)
    \/ \E s \in Slots : RefreshStateNone(s)
    \/ AdvanceTime

SpecStore == InitStore /\ [][NextStore]_vars

\* ------------------------------------- the engine alone with the backend
\* One operation at a time, and nobody but the engine starts or stops a
\* timer on the backend.  Any backend call may fail.
NextAlone ==
    \/ StoreStep
    \/ OnStateUpdate
    \/ SeqStartTimerCall
    \/ \E s \in Slots : StartTimerCreateFailed(s)
    \/ \E s \in Slots : StartTimerCreated(s)
    \/ \E s \in Slots : StartTimerStartFailed(s)
    \/ \E s \in Slots : StartTimerStarted(s)
    \/ SeqStopTimerCall
    \/ \E s \in Slots : StopTimerStopFailed(s)
    \/ \E s \in Slots : StopTimerStopped(s)
    \/ \E s \in Slots : StopTimerReadFailed(s)
    \/ \E s \in Slots : StopTimerRead(s)
    \/ SeqRefreshStateCall
    \/ \E s \in Slots : RefreshStateFailed(s)
    \/ \E s \in Slots : RefreshStateRunning(s)
    \/ \E s \in Slots : RefreshStateNone(s)
    \/ SeqLoadStateCall
    \/ \E s \in Slots : LoadStateFailed(s)
    \/ \E s \in Slots : LoadStateMismatch(s)
    \/ \E s \in Slots : LoadStateRestored(s)
    \/ Tick
    \/ AdvanceTime

SpecAlone == Init /\ [][NextAlone]_vars

\* ------------------------------------------- answers that arrive late
\* getRunningTimer (timesheet.ts lines 169-197) is two calls in a row: the
\* backend decides which timer runs when it handles the first, and the engine
\* resumes only when the second has resolved.  Here the two moments are
\* separate steps, so that other operations complete in between.  Every
\* store update succeeds.
RefreshStateAnswered(s) ==
    /\ At(s, "refreshState", "query")
    /\ \E answer \in IF remoteRunning = {}
                      THEN { None }
                      ELSE { Some(Reported(r, rs, ua)) :
                               r \in remoteRunning, rs \in RunningSeconds,
                               ua \in UnitAmounts } :
         ops' = [ops EXCEPT ![s].pc = "reply", ![s].args = answer]
    /\ UNCHANGED << engineVars, backendVars, updateCallbacks, now, disposed, calls >>
    /\ Quiet

\* refreshState, lines 144-177, resumed with the answer decided earlier.
RefreshStateDelivered(s) ==
    /\ At(s, "refreshState", "reply")
    /\ LET answer == ops[s].args
           e == IF IsSome(answer)
                THEN RefreshRunning(Engine, now, Val(answer))
                ELSE RefreshNone(Engine)
       IN  /\ Commit(e)
           /\ Out("refreshState.query", << >>, Some([ok |-> TRUE, timer |-> answer]),
                  IF IsSome(answer) \/ state.isRunning
                  THEN NotifyStateUpdate(e.state, updateCallbacks)
                  ELSE << >>,
                  Some(TRUE))
    /\ Finish(s)
    /\ UNCHANGED << backendVars, updateCallbacks, now, disposed, calls >>

NextLate ==
    \/ \E i \in 1..MaxWriters : StoreWrite(i)
    \/ StartTimerCall
    \/ \E s \in Slots : StartTimerCreateFailed(s)
    \/ \E s \in Slots : StartTimerCreated(s)
    \/ \E s \in Slots : StartTimerStartFailed(s)
    \/ \E s \in Slots : StartTimerStarted(s)
    \/ StopTimerCall
    \/ \E s \in Slots : StopTimerStopFailed(s)
    \/ \E s \in Slots : StopTimerStopped(s)
    \/ \E s \in Slots : StopTimerReadFailed(s)
    \/ \E s \in Slots : StopTimerRead(s)
    \/ RefreshStateCall
    \/ \E s \in Slots : RefreshStateFailed(s)
    \/ \E s \in Slots : RefreshStateAnswered(s)
    \/ \E s \in Slots : RefreshStateDelivered(s)
    \/ AdvanceTime

SpecLate == Init /\ [][NextLate]_vars

\* ------------------------------------------------ the extension's startup
\* What an earlier session of the extension may have left in the workspace
\* store: nothing, or the saved state of a timer it tracked.
LeftBehind ==
    { EmptyStore } \cup
    { [k \in DOMAIN EmptyStore |->
          SaveValue(k, Running(Epoch, r, Entry(r, ExternalArgs)))] : r \in ExternalIds }

\* activate, lines 19-30 and 163: the services are constructed, the status bar
\* registers its callback, the refresh command is registered, and restoreAuth
\* is scheduled one second later.
InitStartup ==
    /\ state = Stopped
    /\ intervalId = FALSE
    /\ liveIntervals = 0
    /\ updateCallbacks = << 1 >>
    /\ store \in LeftBehind
    /\ writers = << >>
    /\ ops = [s \in Slots |-> IdleOp]
    /\ records = [r \in RecordIds |-> IF r \in ExternalIds THEN Some(ExternalArgs) ELSE None]
    /\ nextId = 1
    /\ remoteRunning \in SUBSET ExternalIds
    /\ now = Epoch
    /\ disposed = FALSE
    /\ calls = 0
    /\ act = "env"
    /\ before = Engine
    /\ rpc = << >>
    /\ reply = None
    /\ fanout = << >>
    /\ ret = None
    /\ message = None
    /\ settles = TRUE
    /\ startup = "delay"

\* restoreAuth, lines 136-160, without stored credentials or with a failing
\* authentication: neither loadState nor refreshState is called.
RestoreAuthAbandoned ==
    /\ Settled
    /\ startup = "delay"
    /\ startup' = "done"
    /\ UNCHANGED << engineVars, ops, backendVars, updateCallbacks, now, disposed, calls >>
    /\ Silent

\* restoreAuth, line 146: authenticated, it calls loadState.
RestoreAuthLoadState == startup = "delay" /\ LoadStateCall

\* restoreAuth, lines 147-150: loadState resolved with false; refreshState is
\* called in the same run of the event loop.
RestoreAuthRefreshState == startup = "due" /\ RefreshStateCall

\* The refresh command (lines 120-123) or the panel (timesheetPanel.ts lines
\* 298-307): registered by activate, the user may trigger them from then on.
UserRefreshState == startup # "due" /\ RefreshStateCall

NextStartup ==
    \/ StoreStep
    \/ RestoreAuthAbandoned
    \/ RestoreAuthLoadState
    \/ \E s \in Slots : LoadStateFailed(s)
    \/ \E s \in Slots : LoadStateMismatch(s)
    \/ \E s \in Slots : LoadStateRestored(s)
    \/ RestoreAuthRefreshState
    \/ UserRefreshState
    \/ \E s \in Slots : RefreshStateFailed(s)
    \/ \E s \in Slots : RefreshStateRunning(s)
    \/ \E s \in Slots : RefreshStateNone(s)
    \/ Tick
    \/ AdvanceTime
    \/ \E r \in RecordIds : ExternalStart(r)
    \/ \E r \in RecordIds : ExternalStop(r)

SpecStartup == InitStartup /\ [][NextStartup]_vars

\* ------------------------------------------- observers and callers writing
\* What a write of `name` does to an entry object.
Renamed(entry, name) == Some([Val(entry) EXCEPT !.name = name])

\* notifyStateUpdate hands this.state itself to the callback: a callback that
\* writes to its argument writes to the engine's object.  The callback of the
\* last notification either lowers isRunning on its argument or renames the
\* nested entry.
ObserverWrites ==
    /\ calls < MaxCalls
    /\ calls' = calls + 1
    /\ fanout # << >>
    /\ state = fanout[1].st
    /\ \/ state' = [state EXCEPT !.isRunning = FALSE]
       \/ /\ IsSome(state.entry)
          /\ state' = [state EXCEPT !.entry = Renamed(state.entry, "written")]
    /\ UNCHANGED << intervalId, liveIntervals, store, writers, ops, backendVars,
                    updateCallbacks, now, disposed >>
    /\ Out("observer", << >>, None, << >>, None)

\* getState returns { ...this.state }: a new object whose fields are the
\* engine's own startTime and entry objects.  A caller that writes a field of
\* the copy changes nothing of the engine; a caller that renames the nested
\* entry renames the engine's entry.
GetStateWrites ==
    /\ CanCall
    /\ calls' = calls + 1
    /\ \/ state' = state
       \/ /\ IsSome(state.entry)
          /\ state' = [state EXCEPT !.entry = Renamed(state.entry, "written")]
    /\ UNCHANGED << intervalId, liveIntervals, store, writers, ops, backendVars,
                    updateCallbacks, now, disposed >>
    /\ Out("getState", << >>, None, << >>, None)

NextWrites ==
    \/ NextSeq
    \/ ObserverWrites
    \/ GetStateWrites

\* Sequential use of the engine by observers and callers that write to the
\* state objects they are handed.
SpecWrites == Init /\ [][NextWrites]_vars

\* ================================================================ claims
\* What a step left of the engine's variables, compared with `before`.
StateKept == state = before.state
StoreKept == store = before.store /\ writers = before.writers
TickKept == intervalId = before.intervalId /\ liveIntervals = before.liveIntervals

\* The step issued a saveState / clearState call: its first key is written
\* and the rest of the call is pending.
Issued(kind) ==
    /\ Len(writers) = Len(before.writers) + 1
    /\ writers[Len(writers)] = Pending(kind)
    /\ store = WriteKey(kind, 1, state, before.store)

\* Every registered callback was invoked exactly once, in order, with st.
NotifiedOnce(st) ==
    /\ Len(fanout) = Len(updateCallbacks)
    /\ \A i \in 1..Len(fanout) :
         fanout[i].cb = updateCallbacks[i] /\ fanout[i].st = st

Succeeded == IsSome(reply) /\ Val(reply).ok
Failed == IsSome(reply) /\ ~Val(reply).ok

\* C1: in every reachable state isRunning is true exactly when startTime and
\* entryId are both non-null, isRunning false implies startTime, entryId and
\* entry are all null, and before any operation is called the state is
\* Stopped.
C1_StateWellFormed ==
    /\ state.isRunning <=> (IsSome(state.startTime) /\ IsSome(state.entryId))
    /\ ~state.isRunning =>
         state.startTime = None /\ state.entryId = None /\ state.entry = None
    /\ calls = 0 => state = Stopped

\* A stop has taken a Running state, installed by a reconcile, to Stopped.
C1_Witness ==
    /\ act = "stopTimer.read"
    /\ ret = Some(TRUE)
    /\ before.state.isRunning
    /\ before.state.entryId = Some(MaxCalls + 1)
    /\ ~state.isRunning

\* C2: startTimer called while the state is Running returns false, leaves
\* TimerState, the saved state and the interval as they were, issues no
\* backend call and notifies no callback.
C2_StartWhileRunningRejected ==
    (act = "startTimer.call" /\ before.state.isRunning) =>
        /\ ret = Some(FALSE)
        /\ StateKept /\ StoreKept /\ TickKept
        /\ rpc = << >>
        /\ fanout = << >>

C2_Witness ==
    /\ act = "startTimer.call"
    /\ before.state.isRunning
    /\ ret = Some(FALSE)
    /\ state.isRunning
    /\ Len(updateCallbacks) = MaxObservers

\* C3: when a startTimer completes, the record it started is the only record
\* created by the engine whose remote timer is running: the engine never has
\* two records started and not stopped.
C3_OneActiveTimer ==
    (act = "startTimer.start" /\ ret = Some(TRUE)) =>
        EngineIds \cap remoteRunning = { Val(state.entryId) }

\* C4: when createTimesheetEntry or action_timer_start fails, the failing
\* startTimer leaves TimerState, the saved state and the interval as they
\* were, notifies no callback and returns false.
C4_StartFailureChangesNothing ==
    (act \in {"startTimer.create", "startTimer.start"} /\ Failed) =>
        /\ StateKept /\ StoreKept /\ TickKept
        /\ fanout = << >>
        /\ rpc = << >>
        /\ ret = Some(FALSE)

\* action_timer_start failed on a record that had been created: the record
\* exists, nothing of the engine changed.
C4_Witness ==
    /\ act = "startTimer.start" /\ Failed /\ ret = Some(FALSE)
    /\ \E r \in EngineIds : IsSome(records[r])
    /\ state = Stopped /\ ~intervalId /\ store = EmptyStore

\* C5: a startTimer whose backend calls succeed first asks for a record with
\* unit_amount 0 and the given name / project / task and changes nothing yet;
\* when the record is created it issues action_timer_start on the created id
\* and still changes nothing; only when that succeeds does it install Running
\* with the created id and the given name / project / task, issue the save,
\* start the interval, notify every callback and return true.
C5_StartSequence ==
    /\ (act = "startTimer.call" /\ rpc # << >>) =>
          /\ Len(rpc) = 1
          /\ rpc[1].m = "create"
          /\ rpc[1].unit_amount = 0
          /\ \E s \in Slots :
                /\ ops[s].kind = "startTimer" /\ ops[s].pc = "create"
                /\ Val(ops[s].args).name = rpc[1].name
                /\ Val(ops[s].args).project_id = rpc[1].project_id
                /\ Val(ops[s].args).task_id = rpc[1].task_id
          /\ StateKept /\ StoreKept /\ TickKept
          /\ fanout = << >> /\ ret = None
    /\ (act = "startTimer.create" /\ Succeeded) =>
          /\ rpc = << [m |-> "startTimer", id |-> Some(Val(reply).id)] >>
          /\ \E s \in Slots :
                /\ ops[s].kind = "startTimer" /\ ops[s].pc = "start"
                /\ ops[s].entryId = Some(Val(reply).id)
                /\ ops[s].args = records[Val(reply).id]
          /\ Val(reply).id \notin remoteRunning
          /\ StateKept /\ StoreKept /\ TickKept
          /\ fanout = << >> /\ ret = None
    /\ (act = "startTimer.start" /\ Succeeded) =>
          LET id == Val(reply).id
              given == Val(records[id])
          IN  /\ state = [isRunning |-> TRUE, startTime |-> Some(now),
                          entryId |-> Some(id),
                          entry |-> Some([id |-> id, name |-> given.name,
                                          project_id |-> given.project_id,
                                          task_id |-> given.task_id])]
              /\ id \in remoteRunning
              /\ Issued("save")
              /\ intervalId /\ liveIntervals = 1
              /\ NotifiedOnce(state)
              /\ rpc = << >>
              /\ ret = Some(TRUE)

C5_Witness ==
    /\ act = "startTimer.start" /\ Succeeded /\ ret = Some(TRUE)
    /\ before.state = Stopped
    /\ state.isRunning
    /\ Val(state.entry).name = "Task B"
    /\ Len(fanout) = MaxObservers

\* C6: when action_timer_stop succeeds, the record stopTimer re-reads is the
\* record it stopped.
C6_RereadsStoppedRecord ==
    (act = "stopTimer.stop" /\ Succeeded) =>
        rpc = << [m |-> "read", id |-> Some(Val(reply).id)] >>

\* C7: stopTimer called while the state is Stopped returns false, changes
\* nothing, issues no backend call, no write and no notification.
C7_StopWhileStoppedRejected ==
    (act = "stopTimer.call" /\ ~before.state.isRunning) =>
        /\ ret = Some(FALSE)
        /\ StateKept /\ StoreKept /\ TickKept
        /\ rpc = << >>
        /\ fanout = << >>

C7_Witness ==
    /\ act = "stopTimer.call"
    /\ before.state = Stopped
    /\ ret = Some(FALSE)
    /\ state = Stopped

\* C8: when action_timer_stop or the re-read fails, the failing stopTimer
\* leaves TimerState, the saved state and the interval as they were, notifies
\* no callback and returns false.
C8_StopFailureChangesNothing ==
    (act \in {"stopTimer.stop", "stopTimer.read"} /\ Failed) =>
        /\ StateKept /\ StoreKept /\ TickKept
        /\ fanout = << >>
        /\ rpc = << >>
        /\ ret = Some(FALSE)

\* The re-read failed after action_timer_stop had stopped the remote timer:
\* the engine is still Running with its interval.
C8_Witness ==
    /\ act = "stopTimer.read" /\ Failed /\ ret = Some(FALSE)
    /\ state.isRunning /\ intervalId
    /\ Val(state.entryId) \notin remoteRunning

\* C9: when getRunningTimer reports a running timer, whatever the local
\* state, refreshState installs Running with the reported id and
\* startTime = now - (running_seconds - unit_amount * 3600) seconds, issues
\* the save, starts the interval and notifies every callback.
C9_ReconcileAdoptsBackend ==
    (act = "refreshState.query" /\ Succeeded /\ IsSome(Val(reply).timer)) =>
        LET tm == Val(Val(reply).timer)
        IN  /\ state.isRunning
            /\ state.entryId = Some(tm.id)
            /\ (now - Val(state.startTime)) * 100 =
                  (tm.running_seconds * 100 - tm.unit_amount * SecondsPerHour)
                      * MsPerSecond
            /\ Val(state.entry).id = tm.id
            /\ Issued("save")
            /\ intervalId /\ liveIntervals = 1
            /\ NotifiedOnce(state)

\* A reconcile replaced a tracked entry by another one the backend reports,
\* whose unit_amount is not zero.
C9_Witness ==
    /\ act = "refreshState.query"
    /\ Succeeded
    /\ IsSome(Val(reply).timer)
    /\ Val(Val(reply).timer).unit_amount > 0
    /\ before.state.isRunning
    /\ before.state.entryId # state.entryId
    /\ state.isRunning

\* C10: with the local state Running, when getRunningTimer reports none,
\* refreshState installs Stopped, issues the clear of the saved state, leaves
\* no interval, and invokes every callback exactly once with isRunning false.
C10_ReconcileDrivenStop ==
    (/\ act = "refreshState.query"
     /\ Succeeded
     /\ Val(reply).timer = None
     /\ before.state.isRunning) =>
        /\ state = Stopped
        /\ Issued("clear")
        /\ store["timer_entryId"] = None
        /\ ~intervalId /\ liveIntervals = 0
        /\ NotifiedOnce(Stopped)
        /\ \A i \in 1..Len(fanout) : ~fanout[i].st.isRunning

C10_Witness ==
    /\ act = "refreshState.query"
    /\ Succeeded
    /\ Val(reply).timer = None
    /\ before.state.isRunning
    /\ ~state.isRunning
    /\ Len(fanout) = MaxObservers

\* C11: when getRunningTimer fails, refreshState leaves TimerState and the
\* saved state as they were before the call (its first step, up to the
\* await, changes neither), notifies no callback and resolves normally.
C11_ReconcileFailureKeepsState ==
    /\ act = "refreshState.call" => StateKept /\ StoreKept /\ fanout = << >>
    /\ (act = "refreshState.query" /\ Failed) =>
          /\ StateKept /\ StoreKept
          /\ fanout = << >>
          /\ rpc = << >>
          /\ ret = Some(TRUE)

\* getRunningTimer failed while the engine was Running with a saved state.
C11_Witness ==
    /\ act = "refreshState.query" /\ Failed
    /\ state.isRunning
    /\ HasSnapshot(store)
    /\ ret = Some(TRUE)

\* The saved state holds exactly what saveState writes for st.
SnapshotOf(st) == [k \in DOMAIN EmptyStore |-> SaveValue(k, st)]

\* The state a reconcile produces from reported timer tm at the present time.
ReconciledFrom(tm) ==
    [isRunning |-> TRUE,
     startTime |-> Some(now - ((tm.running_seconds * 100
                                  - tm.unit_amount * SecondsPerHour)
                               * MsPerSecond) \div 100),
     entryId |-> Some(tm.id),
     entry |-> Some(tm.entry)]

C13_ReconcileRepublishesWhenStopped ==
    (/\ act = "refreshState.query"
     /\ Succeeded
     /\ Val(reply).timer = None
     /\ before.state = Stopped) =>
        /\ NotifiedOnce(state)
        /\ StateKept /\ StoreKept /\ TickKept

\* The state startTimer installed at time t for record id, as the backend
\* holds the name / project / task the caller gave.
StartedAt(t, id) == Running(t, id, Entry(id, Val(records[id])))

\* C14: when loadState finds the saved state a successful startTimer wrote
\* and the backend confirms that record running, it installs Running with the
\* same entry id, the saved start time as it was saved, and the project, task
\* and description given to startTimer, starts the interval, notifies every
\* callback and returns true.
C14_RoundTrip ==
    (act = "loadState.query" /\ Succeeded /\ ret = Some(TRUE)) =>
        LET id == Val(Val(reply).timer).id
            t == before.store["timer_startTime"]
        IN  (/\ IsSome(records[id]) /\ IsSome(t)
             /\ before.store = SnapshotOf(StartedAt(Val(t), id))) =>
                /\ state.isRunning
                /\ state.entryId = Some(id)
                /\ state.startTime = t
                /\ Val(state.entry).name = Val(records[id]).name
                /\ Val(state.entry).project_id = Val(records[id]).project_id
                /\ Val(state.entry).task_id = Val(records[id]).task_id
                /\ intervalId /\ liveIntervals = 1
                /\ NotifiedOnce(state)

\* A restarted engine (Stopped, nothing in flight, while a record the engine
\* started is running remotely) restored "Task A" with project 5 and task 10,
\* later than it was started.
C14_Witness ==
    /\ act = "loadState.query" /\ Succeeded /\ ret = Some(TRUE)
    /\ before.state = Stopped
    /\ ~before.intervalId
    /\ Val(state.entryId) \in EngineIds
    /\ before.store = SnapshotOf(StartedAt(Val(state.startTime), Val(state.entryId)))
    /\ Val(state.entry).name = "Task A"
    /\ Val(state.entry).project_id = Some(5)
    /\ Val(state.entry).task_id = Some(10)
    /\ Val(state.startTime) < now

\* The saved state holds both an entry id and a start time.
SnapshotPresent(sto) ==
    Truthy(sto["timer_entryId"]) /\ Truthy(sto["timer_startTime"])

\* The backend answered loadState with the running timer of the saved entry.
BackendConfirms(sto) ==
    /\ Succeeded
    /\ IsSome(Val(reply).timer)
    /\ Some(Val(Val(reply).timer).id) = sto["timer_entryId"]

\* C15: loadState asks the backend only when the saved state holds an entry
\* id and a start time, and otherwise returns false at once; it installs
\* Running and returns true exactly when the backend query succeeded and
\* reported the saved entry id; in every other outcome it returns false and
\* leaves TimerState as it was.
C15_LoadTrustsBackendOnly ==
    /\ act = "loadState.call" =>
          /\ StateKept /\ StoreKept /\ TickKept /\ fanout = << >>
          /\ IF SnapshotPresent(before.store)
             THEN rpc = << [m |-> "getRunningTimer"] >> /\ ret = None
             ELSE rpc = << >> /\ ret = Some(FALSE)
    /\ act = "loadState.query" =>
          /\ SnapshotPresent(before.store)
          /\ IF BackendConfirms(before.store)
             THEN /\ ret = Some(TRUE)
                  /\ state.isRunning
                  /\ state.entryId = before.store["timer_entryId"]
             ELSE /\ ret = Some(FALSE)
                  /\ StateKept /\ TickKept
                  /\ fanout = << >>

\* loadState found a saved state but the backend reported another record
\* running: nothing was restored.
C15_Witness ==
    /\ act = "loadState.query"
    /\ Succeeded
    /\ IsSome(Val(reply).timer)
    /\ SnapshotPresent(before.store)
    /\ Some(Val(Val(reply).timer).id) # before.store["timer_entryId"]
    /\ ret = Some(FALSE)
    /\ state = Stopped

\* C16: whenever loadState found a saved state and returns false (the backend
\* reported no running timer, another record, or the query failed), it has
\* issued the clear of the saved state: no saved entry id remains.
C16_LoadClearsStaleSnapshot ==
    (act = "loadState.query" /\ ret = Some(FALSE)) =>
        /\ Issued("clear")
        /\ store["timer_entryId"] = None

\* The backend's duration (hundredths of an hour) and the locally elapsed
\* time (milliseconds) differ by more than 0.1 hour.
DiffersByMoreThanTolerance(duration, elapsedMs) ==
    \/ duration * MsPerHour - elapsedMs * 100 > ToleranceMs * 100
    \/ elapsedMs * 100 - duration * MsPerHour > ToleranceMs * 100

\* C17: a stopTimer whose re-read succeeds installs Stopped and returns true
\* whatever the two durations are, and its message carries the discrepancy
\* note whenever the backend's duration and the locally elapsed time differ
\* by more than 0.1 hour.
C17_DiscrepancyNoted ==
    (act = "stopTimer.read" /\ Succeeded) =>
        /\ state = Stopped
        /\ ret = Some(TRUE)
        /\ IsSome(message)
        /\ DiffersByMoreThanTolerance(Val(reply).unit_amount,
                                      GetElapsedMs(before.state, now))
              => Val(message).note

\* C18: a stopTimer that returns true leaves no interval scheduled; while the
\* state is not Running no interval is scheduled, so none can fire before an
\* operation installs Running again; and an interval callback that notifies
\* does so from a Running state, with that state.
C18_NoTickAfterStop ==
    /\ (act = "stopTimer.read" /\ ret = Some(TRUE)) =>
          ~state.isRunning /\ ~intervalId /\ liveIntervals = 0
    /\ ~state.isRunning => liveIntervals = 0
    /\ (act = "tick" /\ fanout # << >>) =>
          /\ before.state.isRunning
          /\ \A i \in 1..Len(fanout) : fanout[i].st.isRunning

\* A successful stop cancelled the interval that was scheduled.
C18_Witness ==
    /\ act = "stopTimer.read" /\ ret = Some(TRUE)
    /\ before.intervalId /\ before.liveIntervals = 1
    /\ ~intervalId /\ liveIntervals = 0
    /\ Len(fanout) > 0

\* C19: a write that an observer performs on its callback argument, or a
\* caller on the value getState returned (its nested entry included), leaves
\* the engine's TimerState as it was.
C19_StateNotWritableFromOutside ==
    act \in {"observer", "getState"} => state = before.state

\* C20: once dispose has been called no interval is scheduled and no callback
\* is invoked, also when an operation that was awaiting a backend reply at
\* the time of dispose completes afterwards.
C20_NothingAfterDispose ==
    disposed =>
        /\ ~intervalId
        /\ liveIntervals = 0
        /\ fanout = << >>

\* The engine's variables as they would be had the state left Running with
\* the interval still scheduled.
LeftRunning == [Engine EXCEPT !.state = Stopped, !.intervalId = TRUE,
                              !.liveIntervals = 1]

\* C21: in every state, also with an operation suspended at a backend call,
\* a scheduled interval implies isRunning; the interval callback, were it to
\* fire with the state not Running, would invoke no callback and cancel the
\* interval; and a firing callback issues no backend call, writes nothing to
\* the store and leaves TimerState as it is.
C21_TickOnlyRepublishes ==
    /\ liveIntervals > 0 => state.isRunning
    /\ intervalId <=> liveIntervals > 0
    /\ TickFanout(LeftRunning, updateCallbacks) = << >>
    /\ ~TickEffect(LeftRunning).intervalId
    /\ TickEffect(LeftRunning).liveIntervals = 0
    /\ act = "tick" =>
          /\ StateKept /\ StoreKept
          /\ rpc = << >>
          /\ reply = None
          /\ ret = None

\* The interval fired while an operation was suspended at a backend call and
\* republished the Running state to every callback.
C21_Witness ==
    /\ act = "tick"
    /\ state.isRunning
    /\ \E s \in Slots : ops[s].kind # "idle"
    /\ Len(fanout) = MaxObservers
    /\ \A i \in 1..Len(fanout) : fanout[i].st = state

\* C22: once every pending store write has completed and no operation is in
\* flight, the snapshot is present exactly when the state is Running, and a
\* present snapshot carries the state's entryId and startTime -- whatever
\* the interleaving of the un-awaited saveState / clearState sequences.
C22_SnapshotMatchesState ==
    (writers = << >> /\ Quiescent) =>
        /\ SnapshotPresent(store) <=> state.isRunning
        /\ SnapshotPresent(store) =>
              /\ store["timer_entryId"] = state.entryId
              /\ store["timer_startTime"] = state.startTime

\* The step completed an operation that installed a state.
Installed ==
    \/ act = "startTimer.start" /\ Succeeded
    \/ act = "stopTimer.read" /\ Succeeded
    \/ act = "loadState.query" /\ ret = Some(TRUE)
    \/ /\ act = "refreshState.query" /\ Succeeded
       /\ IsSome(Val(reply).timer) \/ before.state.isRunning

\* The step rejected a call before any backend call was issued.
Rejected ==
    /\ act \in {"startTimer.call", "stopTimer.call", "loadState.call"}
    /\ ret = Some(FALSE)

\* C23: a successful start, a successful stop, a restoring load and a
\* reconcile that installs a state each invoke every registered callback
\* exactly once, in registration order, with the state just installed; a
\* rejected or failed operation invokes none.
C23_NotifiesOncePerInstall ==
    /\ Installed => NotifiedOnce(state)
    /\ (Rejected \/ Failed) => fanout = << >>

\* A successful stop told two registered callbacks, first to last, that the
\* engine is Stopped.
C23_Witness ==
    /\ act = "stopTimer.read" /\ Succeeded
    /\ before.state.isRunning
    /\ updateCallbacks = << 1, 2 >>
    /\ fanout = << [cb |-> 1, st |-> Stopped], [cb |-> 2, st |-> Stopped] >>

\* The step is a start, stop or reconcile that issued saveState / clearState.
IssuedByTransition ==
    /\ act \in {"startTimer.start", "stopTimer.read", "refreshState.query"}
    /\ Issued("save") \/ Issued("clear")

\* A pending saveState / clearState call ends without writing its key.
WriteFails(i) ==
    /\ i \in 1..Len(writers)
    /\ writers' = RemoveAt(writers, i)
    /\ store' = store

\* C24: a failing store write is not fatal.  The start, stop or reconcile
\* that issues saveState / clearState installs its state, adjusts the
\* interval, notifies every callback and returns success in the very step
\* that issues the call, without waiting for the writes; and a step in which a
\* pending write fails leaves the state, the interval, the callbacks and the
\* operations in flight as they were.
C24_StoreFailureNotFatal ==
    /\ [](IssuedByTransition =>
            /\ state.isRunning <=> Issued("save")
            /\ intervalId <=> state.isRunning
            /\ liveIntervals = (IF state.isRunning THEN 1 ELSE 0)
            /\ NotifiedOnce(state)
            /\ ret = Some(TRUE))
    /\ [][\A i \in 1..MaxWriters :
            WriteFails(i) =>
                /\ state' = state
                /\ intervalId' = intervalId
                /\ liveIntervals' = liveIntervals
                /\ updateCallbacks' = updateCallbacks
                /\ ops' = ops
                /\ disposed' = disposed]_vars

\* The saveState of a start failed after its first key: the engine is Running
\* with its interval, nothing is pending, and the store holds the entry id
\* without the start time.
C24_Witness ==
    /\ act = "env"
    /\ state.isRunning /\ intervalId /\ liveIntervals = 1
    /\ writers = << >>
    /\ store["timer_entryId"] = state.entryId
    /\ store["timer_startTime"] = None
    /\ store["timer_description"] = None

\* C25: from the activation of the extension on, loadState is called at most
\* once and before any refreshState (it is the first engine operation
\* called, also when the user runs the refresh command or opens the panel
\* during the startup delay), and restoreAuth goes on to refreshState exactly
\* when loadState returned false.  (In SpecStartup loadState and refreshState
\* are the only operations called, so `calls` counts them.)
C25_LoadFirstAndOnce ==
    /\ act = "loadState.call" => calls = 1
    /\ (act \in {"loadState.call", "loadState.query"} /\ ret = Some(FALSE)) =>
            startup = "due"
    /\ (act = "loadState.query" /\ ret = Some(TRUE)) => startup = "done"
    /\ startup = "reconciled" => act # "loadState.call"

\* C26: with one operation at a time and a backend only the engine changes,
\* whenever no operation is in flight and the state is Running for entry e,
\* the backend's running timer is e.
C26_RunningMatchesBackend ==
    (Quiescent /\ state.isRunning) => remoteRunning = { Val(state.entryId) }

\* C27: a reconcile that was awaiting its query while a stop completed does
\* not install its stale answer over the stop.  When the reconcile resumes
\* over a Stopped engine with the answer "timer e is running" although e is
\* no longer running on the backend (the engine's own stop ended it: nobody
\* else changes the backend in SpecLate), and nothing else is in flight, the
\* engine is Stopped with no saved state and no interval.
C27_StaleAnswerNotInstalled ==
    (/\ act = "refreshState.query" /\ Succeeded
     /\ IsSome(Val(reply).timer)
     /\ Val(Val(reply).timer).id \notin remoteRunning
     /\ before.state = Stopped
     /\ Quiescent) =>
        /\ state = Stopped
        /\ ~SnapshotPresent(store)
        /\ ~intervalId /\ liveIntervals = 0

\* C28: whenever the state is Running, no operation is in flight and the
\* engine is not disposed, the interval is active; in particular a reconcile
\* whose query fails while the engine is Running leaves the interval active.
C28_RunningImpliesTick ==
    /\ (state.isRunning /\ Quiescent /\ ~disposed) =>
            intervalId /\ liveIntervals = 1
    /\ (act = "refreshState.query" /\ Failed /\ before.state.isRunning) =>
            intervalId /\ liveIntervals = 1

\* C29: getElapsedHours is 0 when Stopped and now - startTime when Running,
\* and is never negative; the start time a reconcile back-computes from the
\* reported running_seconds and unit_amount is never later than the present
\* time, whatever pair of values the backend reports.
C29_ElapsedNeverNegative ==
    /\ ~state.isRunning => GetElapsedMs(state, now) = 0
    /\ state.isRunning => GetElapsedMs(state, now) = now - Val(state.startTime)
    /\ GetElapsedMs(state, now) >= 0
    /\ (act = "refreshState.query" /\ Succeeded /\ IsSome(Val(reply).timer)) =>
            Val(state.startTime) <= now

\* C30: at most one interval is scheduled at any time, and it is the one the
\* engine holds the id of: a start, reconcile or load that activates the
\* interval cancels the previous one first, in any order or interleaving.
\* One firing of the interval invokes each callback at most once.
C30_AtMostOneInterval ==
    /\ liveIntervals <= 1
    /\ intervalId <=> liveIntervals = 1
    /\ act = "tick" =>
          /\ Len(fanout) <= Len(updateCallbacks)
          /\ \A i, j \in 1..Len(fanout) : fanout[i].cb = fanout[j].cb => i = j

\* An operation activated the interval while one was already scheduled, and
\* one interval is left.
C30_Witness ==
    /\ act \in {"startTimer.start", "refreshState.query", "loadState.query"}
    /\ before.intervalId /\ before.liveIntervals = 1
    /\ state.isRunning
    /\ intervalId /\ liveIntervals = 1
====
